---- MODULE Spec2Model ----
(***************************************************************************)
(* The chat server of CyberAI: the in-memory store (MemStorage), the HTTP  *)
(* handlers registered by registerRoutes and the two Gemini wrappers       *)
(* generateChatResponse and generateConversationTitle.                     *)
(*                                                                         *)
(* Every handler is an async function.  The body of an async function runs *)
(* synchronously up to its first await, and every await hands control back *)
(* to the event loop, so a handler is a chain of atomic blocks cut at its  *)
(* awaits.  The methods of MemStorage hold no await: each runs to the end  *)
(* inside the block that calls it.  Blocks of different requests           *)
(* interleave freely.                                                      *)
(***************************************************************************)
EXTENDS Integers, Sequences, FiniteSets, TLC

\* Bounds of the model.
NumReq == 3      \* HTTP requests handled in one run
MaxClock == 1    \* the clock (milliseconds) ranges over 0..MaxClock
MaxUsers == 1    \* users created in one run
MaxStored == 4   \* records created by direct calls of the store in one run

VARIABLES
    users,          \* MemStorage.users, in Map insertion order
    conversations,  \* MemStorage.conversations, in Map insertion order
    messages,       \* MemStorage.messages, in Map insertion order
    now,            \* what new Date() returns
    uuids,          \* number of randomUUID() calls made so far
    credential,     \* GEMINI_API_KEY or GOOGLE_API_KEY is set
    req             \* the requests: inputs, position, locals, responses sent

vars == <<users, conversations, messages, now, uuids, credential, req>>

Requests == 1..NumReq

\* undefined of the source: a field that is not there.
Undefined == "undefined"

\* null of the source.
Null == "null"

\* A conversation id no createConversation ever returned.
UnknownId == "unknown"

\* The n-th value randomUUID() returns; all are distinct.
randomUUID(n) == "uuid" \o ToString(n)

----------------------------------------------------------------------------
(* Array.prototype.sort: stable, element a stays before b unless           *)
(* cmp(a, b) > 0.  Computed as an insertion sort from left to right; the   *)
(* comparator is handed over as a function on pairs of elements.           *)

\* The elements of an array.
Range(s) == {s[i] : i \in 1..Len(s)}

SortInsert(cmp, x, t) ==
    LET keep == {k \in 1..Len(t) : cmp[<<t[k], x>>] <= 0}
        k == IF keep = {} THEN 0 ELSE CHOOSE i \in keep : \A j \in keep : j <= i
    IN  SubSeq(t, 1, k) \o <<x>> \o SubSeq(t, k + 1, Len(t))

Sort(s, cmp) ==
    LET f[i \in 0..Len(s)] ==
            IF i = 0 THEN <<>> ELSE SortInsert(cmp, s[i], f[i - 1])
    IN  f[Len(s)]

----------------------------------------------------------------------------
(* MemStorage                                                              *)

\* createUser: the store after the call.
createUser(insertUser) ==
    Append(users, [id |-> randomUUID(uuids + 1),
                   username |-> insertUser.username,
                   password |-> insertUser.password])

\* createConversation: the conversation it builds and returns.
newConversation(insertConversation) ==
    [id |-> randomUUID(uuids + 1),
     title |-> insertConversation.title,
     createdAt |-> now]

\* createConversation: the store after the call.
createConversation(insertConversation) ==
    Append(conversations, newConversation(insertConversation))

\* Mutant of compareConversations: the operands are swapped.
compareConversations_ascending(a, b) == a.createdAt - b.createdAt

compareConversations(a, b) == b.createdAt - a.createdAt

getAllConversationsIn(store) ==
    Sort(store, [p \in Range(store) \X Range(store) |->
                    compareConversations(p[1], p[2])])

getAllConversations ==
    getAllConversationsIn(conversations)

\* deleteConversation: this.conversations after the call.
deleteConversation_conversations(id) ==
    SelectSeq(conversations, LAMBDA c : c.id # id)

\* deleteConversation: the ids of the messages it is about to delete.
messagesToDelete(id) ==
    LET found == SelectSeq(messages, LAMBDA m : m.conversationId = id)
    IN  [i \in 1..Len(found) |-> found[i].id]

\* Mutant of deleteConversation_messages: only the first of the messages
\* found is deleted.
deleteConversation_messages_first(id) ==
    LET doomed == {messagesToDelete(id)[i] : i \in 1..Len(messagesToDelete(id)) \cap {1}}
    IN  SelectSeq(messages, LAMBDA m : m.id \notin doomed)

\* deleteConversation: this.messages after the call.
deleteConversation_messages(id) ==
    LET doomed == {messagesToDelete(id)[i] : i \in 1..Len(messagesToDelete(id))}
    IN  SelectSeq(messages, LAMBDA m : m.id \notin doomed)

\* Mutant of newMessage: the conversationId is never taken over.
newMessage_nullConversation(insertMessage) ==
    [id |-> randomUUID(uuids + 1),
     conversationId |-> Null,
     role |-> insertMessage.role,
     content |-> insertMessage.content,
     timestamp |-> now]

\* createMessage: the message it builds and returns.
newMessage(insertMessage) ==
    [id |-> randomUUID(uuids + 1),
     conversationId |-> IF insertMessage.conversationId \in {Undefined, ""}
                        THEN Null ELSE insertMessage.conversationId,
     role |-> insertMessage.role,
     content |-> insertMessage.content,
     timestamp |-> now]

\* createMessage: the store after the call.
createMessage(insertMessage) ==
    Append(messages, newMessage(insertMessage))

\* Mutant of compareMessages: the operands are swapped.
compareMessages_descending(a, b) == b.timestamp - a.timestamp

compareMessages(a, b) == a.timestamp - b.timestamp

getMessagesByConversationIn(store, conversationId) ==
    LET found == SelectSeq(store, LAMBDA m : m.conversationId = conversationId)
    IN  Sort(found, [p \in Range(found) \X Range(found) |->
                        compareMessages(p[1], p[2])])

getMessagesByConversation(conversationId) ==
    getMessagesByConversationIn(messages, conversationId)

----------------------------------------------------------------------------
(* services/gemini                                                         *)

\* Substrings the catch block of generateChatResponse looks for.
Markers == {"API_KEY", "quota", "rate"}

\* Replies of ai.models.generateContent to a chat call: a text (possibly
\* empty), an Error whose message holds some of the markers, or a thrown
\* value that is no Error.
ProviderChatReplies ==
    {[type |-> "text", text |-> t, has |-> {}] : t \in {"", "pong"}}
    \cup {[type |-> "error", text |-> "", has |-> h] : h \in SUBSET Markers}
    \cup {[type |-> "thrown", text |-> "", has |-> {}]}

\* The replies the handlers' runs draw from: one that succeeds, one that fails.
ChatReplies ==
    {reply \in ProviderChatReplies :
        \/ reply.type = "text" /\ reply.text = "pong"
        \/ reply.type = "error" /\ reply.has = {}}

Apology == "I apologize, but I couldn't generate a response. Please try again."
AuthError == "Invalid or missing API key. Please check your Gemini API configuration."
QuotaError == "API quota exceeded. Please try again later."
RateLimitError == "Rate limit exceeded. Please wait a moment before sending another message."
GenerationError == "Failed to generate AI response. Please try again."

\* The message of the error thrown when no key is set.
ConfigurationError == "GEMINI_API_KEY environment variable is required"

\* The error thrown when no key is set: its message holds "API_KEY".
MissingKey == [type |-> "error", text |-> "", has |-> {"API_KEY"}]

\* generateChatResponse, given what the provider would answer: the value it
\* returns (ok) or the Error it throws, and the number of calls of
\* ai.models.generateContent it made.
generateChatResponse(reply) ==
    LET raised == IF ~credential THEN MissingKey ELSE reply
        calls == IF ~credential THEN 0 ELSE 1
    IN  IF raised.type = "text"
        THEN [ok |-> TRUE, calls |-> calls,
              value |-> IF raised.text = "" THEN Apology ELSE raised.text]
        ELSE IF raised.type = "error" /\ "API_KEY" \in raised.has
        THEN [ok |-> FALSE, calls |-> calls, value |-> AuthError]
        ELSE IF raised.type = "error" /\ "quota" \in raised.has
        THEN [ok |-> FALSE, calls |-> calls, value |-> QuotaError]
        ELSE IF raised.type = "error" /\ "rate" \in raised.has
        THEN [ok |-> FALSE, calls |-> calls, value |-> RateLimitError]
        ELSE [ok |-> FALSE, calls |-> calls, value |-> GenerationError]

\* Titles are sequences of characters.
DefaultTitle ==
    <<"N", "e", "w", " ", "C", "o", "n", "v", "e", "r", "s", "a", "t", "i", "o", "n">>

TitleLimit == 50

\* Replies of ai.models.generateContent to a title call: a text or a failure.
ProviderTitleReplies ==
    {[type |-> "text", text |-> t] :
        t \in {<<>>, <<"T">>, <<"'", "\"">>, <<" ", "\"", "T", "\"">>}}
    \cup {[type |-> "error", text |-> <<>>]}

\* The replies the handlers' runs draw from: one with a title, one with an
\* empty text, one that fails.
TitleReplies ==
    {reply \in ProviderTitleReplies :
        reply.type = "error" \/ reply.text \in {<<>>, <<"T">>}}

\* A title call that fails or brings nothing.
TitleFailed(reply) == reply.type = "error" \/ reply.text = <<>>

\* String.prototype.substring(0, n)
Substring(s, n) == SubSeq(s, 1, IF Len(s) < n THEN Len(s) ELSE n)

\* replace(/['"]/g, "")
StripQuotes(s) == SelectSeq(s, LAMBDA c : c \notin {"'", "\""})

\* String.prototype.trim
Trim(s) ==
    LET solid == {i \in 1..Len(s) : s[i] # " "}
    IN  IF solid = {} THEN <<>>
        ELSE SubSeq(s, CHOOSE i \in solid : \A j \in solid : i <= j,
                       CHOOSE i \in solid : \A j \in solid : j <= i)

\* Mutant of generateConversationTitle: no fallback to the default title.
generateConversationTitle_noFallback(reply) ==
    IF reply.type = "error" THEN <<>>
    ELSE Trim(StripQuotes(Substring(reply.text, TitleLimit)))

generateConversationTitle(reply) ==
    IF reply.type = "error" THEN DefaultTitle
    ELSE LET cut == Substring(reply.text, TitleLimit)
             title == IF cut = <<>> THEN DefaultTitle ELSE cut
         IN  Trim(StripQuotes(title))

----------------------------------------------------------------------------
(* routes                                                                  *)
(*                                                                         *)
(* res.json and res.status(..).json read only the handler's locals, so the *)
(* block that sends the response is folded into the block before it.       *)

\* Bodies a client posts to /api/chat.
ChatMessages == {"", "Hello"}

Ids(s) == {s[i].id : i \in 1..Len(s)}

\* Ids of the conversations the handlers created so far, deleted ones included.
KnownIds ==
    UNION {Ids(req[r].conversation) : r \in Requests}

\* Ids a client may send: of a conversation that is or was there, of
\* messages left behind, or of nothing at all.
ClientIds ==
    KnownIds \cup Ids(conversations)
    \cup ({messages[i].conversationId : i \in 1..Len(messages)} \ {Null})
    \cup {UnknownId}

\* chatRequestSchema.parse succeeds: message is a non-empty string.
chatRequestSchema(body) == body.message # ""

ValidationError == "Invalid request body"
UnexpectedError == "An unexpected error occurred while processing your request."

\* A request that has not arrived.
Idle ==
    [kind |-> "none", pc |-> "idle", message |-> "", conversationId |-> Undefined,
     conversationHistory |-> <<>>, aiResponse |-> Undefined,
     conversation |-> <<>>, currentConversationId |-> Undefined,
     stored |-> <<>>, result |-> <<>>, sent |-> <<>>]

\* Mutant of chatCatch: every failure is answered as an unexpected one.
chatCatch_always500(isError, message) ==
    [status |-> 500, error |-> UnexpectedError]

\* The catch block of POST /api/chat.
chatCatch(isError, message) ==
    IF isError THEN [status |-> 400, error |-> message]
    ELSE [status |-> 500, error |-> UnexpectedError]

\* messages.map(msg => ({role, content}))
conversationHistory(found) ==
    [i \in 1..Len(found) |-> [role |-> found[i].role, content |-> found[i].content]]

\* POST /api/chat up to its first await: parse, load the history.
PostChat(r, body) ==
    /\ req[r].pc = "idle"
    /\ IF ~chatRequestSchema(body)
       THEN req' = [req EXCEPT ![r] =
                [@ EXCEPT !.kind = "chat", !.pc = "done",
                          !.message = body.message,
                          !.conversationId = body.conversationId,
                          !.sent = Append(@, chatCatch(TRUE, ValidationError))]]
       ELSE req' = [req EXCEPT ![r] =
                [@ EXCEPT !.kind = "chat", !.pc = "generate",
                          !.message = body.message,
                          !.conversationId = body.conversationId,
                          !.conversationHistory =
                              IF body.conversationId # Undefined
                              THEN conversationHistory(
                                       getMessagesByConversation(body.conversationId))
                              ELSE <<>>]]
    /\ UNCHANGED <<users, conversations, messages, now, uuids, credential>>

\* generateChatResponse throws: the catch block answers.
ChatFail(r, reply) ==
    /\ req[r].pc = "generate"
    /\ ~generateChatResponse(reply).ok
    /\ req' = [req EXCEPT ![r] =
            [@ EXCEPT !.pc = "done",
                      !.sent = Append(@, chatCatch(TRUE, generateChatResponse(reply).value))]]
    /\ UNCHANGED <<users, conversations, messages, now, uuids, credential>>

\* generateChatResponse returns and no conversationId came with the request:
\* the handler asks for a title.
ChatAskTitle(r, reply) ==
    /\ req[r].pc = "generate"
    /\ generateChatResponse(reply).ok
    /\ req[r].conversationId = Undefined
    /\ req' = [req EXCEPT ![r] =
            [@ EXCEPT !.pc = "title",
                      !.aiResponse = generateChatResponse(reply).value]]
    /\ UNCHANGED <<users, conversations, messages, now, uuids, credential>>

\* generateConversationTitle returns: createConversation.
ChatCreateConversation(r, reply) ==
    /\ req[r].pc = "title"
    /\ LET insertConversation == [title |-> generateConversationTitle(reply)]
       IN  /\ conversations' = createConversation(insertConversation)
           /\ req' = [req EXCEPT ![r] =
                   [@ EXCEPT !.pc = "storeUser",
                             !.conversation = <<newConversation(insertConversation)>>]]
    /\ uuids' = uuids + 1
    /\ UNCHANGED <<users, messages, now, credential>>

\* Mutant of userInsert: the conversationId is left out.
userInsert_noConversation(r, conversationId) ==
    [conversationId |-> Undefined, role |-> "user", content |-> req[r].message]

\* The user message of the turn.
userInsert(r, conversationId) ==
    [conversationId |-> conversationId, role |-> "user", content |-> req[r].message]

\* Mutant of assistantInsert: the role of the user message is copied.
assistantInsert_roleUser(r, conversationId) ==
    [conversationId |-> conversationId, role |-> "user",
     content |-> req[r].aiResponse]

\* The assistant message of the turn.
assistantInsert(r, conversationId) ==
    [conversationId |-> conversationId, role |-> "assistant",
     content |-> req[r].aiResponse]

\* generateChatResponse returns and a conversationId came with the request:
\* the user message is stored under it.
ChatStoreUserExisting(r, reply) ==
    /\ req[r].pc = "generate"
    /\ generateChatResponse(reply).ok
    /\ req[r].conversationId # Undefined
    /\ LET aiResponse == generateChatResponse(reply).value
           insertMessage == userInsert(r, req[r].conversationId)
       IN  /\ messages' = createMessage(insertMessage)
           /\ req' = [req EXCEPT ![r] =
                   [@ EXCEPT !.pc = "storeAI",
                             !.aiResponse = aiResponse,
                             !.currentConversationId = req[r].conversationId,
                             !.stored = Append(@, newMessage(insertMessage))]]
    /\ uuids' = uuids + 1
    /\ UNCHANGED <<users, conversations, now, credential>>

\* createConversation has returned: the user message is stored under the
\* new conversation's id.
ChatStoreUserNew(r) ==
    /\ req[r].pc = "storeUser"
    /\ LET insertMessage == userInsert(r, req[r].conversation[1].id)
       IN  /\ messages' = createMessage(insertMessage)
           /\ req' = [req EXCEPT ![r] =
                   [@ EXCEPT !.pc = "storeAI",
                             !.currentConversationId = req[r].conversation[1].id,
                             !.stored = Append(@, newMessage(insertMessage))]]
    /\ uuids' = uuids + 1
    /\ UNCHANGED <<users, conversations, now, credential>>

\* The user message is stored: store the assistant message and answer.
ChatStoreAI(r) ==
    /\ req[r].pc = "storeAI"
    /\ LET insertMessage == assistantInsert(r, req[r].currentConversationId)
       IN  /\ messages' = createMessage(insertMessage)
           /\ req' = [req EXCEPT ![r] =
                   [@ EXCEPT !.pc = "done",
                             !.stored = Append(@, newMessage(insertMessage)),
                             !.sent = Append(@, [status |-> 200,
                                                 response |-> req[r].aiResponse,
                                                 conversationId |->
                                                     req[r].currentConversationId])]]
    /\ uuids' = uuids + 1
    /\ UNCHANGED <<users, conversations, now, credential>>

\* GET /api/conversations/:id/messages
GetMessages(r, id) ==
    /\ req[r].pc = "idle"
    /\ req' = [req EXCEPT ![r] =
            [@ EXCEPT !.kind = "messages", !.pc = "done",
                      !.conversationId = id,
                      !.sent = Append(@, [status |-> 200,
                                          body |-> getMessagesByConversation(id)])]]
    /\ UNCHANGED <<users, conversations, messages, now, uuids, credential>>

\* GET /api/conversations
GetConversations(r) ==
    /\ req[r].pc = "idle"
    /\ req' = [req EXCEPT ![r] =
            [@ EXCEPT !.kind = "list", !.pc = "done",
                      !.sent = Append(@, [status |-> 200,
                                          body |-> getAllConversations])]]
    /\ UNCHANGED <<users, conversations, messages, now, uuids, credential>>

\* DELETE /api/conversations/:id
DeleteConversation(r, id) ==
    /\ req[r].pc = "idle"
    /\ conversations' = deleteConversation_conversations(id)
    /\ messages' = deleteConversation_messages(id)
    /\ req' = [req EXCEPT ![r] =
            [@ EXCEPT !.kind = "delete", !.pc = "done",
                      !.conversationId = id,
                      !.result = messagesToDelete(id),
                      !.sent = Append(@, [status |-> 200,
                                          body |-> <<[success |-> TRUE]>>])]]
    /\ UNCHANGED <<users, now, uuids, credential>>

----------------------------------------------------------------------------
(* direct calls of the store                                               *)

\* storage.createUser
CreateUser ==
    /\ Len(users) < MaxUsers
    /\ uuids < MaxStored
    /\ users' = createUser([username |-> "alice", password |-> "secret"])
    /\ uuids' = uuids + 1
    /\ UNCHANGED <<conversations, messages, now, credential, req>>

\* storage.createConversation
CreateConversation(insertConversation) ==
    /\ uuids < MaxStored
    /\ conversations' = createConversation(insertConversation)
    /\ uuids' = uuids + 1
    /\ UNCHANGED <<users, messages, now, credential, req>>

\* storage.createMessage
CreateMessage(insertMessage) ==
    /\ uuids < MaxStored
    /\ messages' = createMessage(insertMessage)
    /\ uuids' = uuids + 1
    /\ UNCHANGED <<users, conversations, now, credential, req>>

----------------------------------------------------------------------------
(* environment                                                             *)

\* Time passes.
Tick ==
    /\ now < MaxClock
    /\ now' = now + 1
    /\ UNCHANGED <<users, conversations, messages, uuids, credential, req>>

Init ==
    /\ users = <<>>
    /\ conversations = <<>>
    /\ messages = <<>>
    /\ now = 0
    /\ uuids = 0
    /\ credential \in BOOLEAN
    /\ req = [r \in Requests |-> Idle]

\* Requests are numbered in the order in which their handlers start.
Starts(r) == IF r = 1 THEN TRUE ELSE req[r - 1].pc # "idle"

\* The server: requests arrive and are handled, interleaved at their awaits.
Next ==
    \/ \E r \in Requests :
        /\ Starts(r)
        /\ \/ \E m \in ChatMessages, id \in ClientIds \cup {Undefined} :
                 PostChat(r, [message |-> m, conversationId |-> id])
           \/ \E id \in ClientIds : GetMessages(r, id)
           \/ GetConversations(r)
           \/ \E id \in ClientIds : DeleteConversation(r, id)
    \/ \E r \in Requests, reply \in ChatReplies : ChatFail(r, reply)
    \/ \E r \in Requests, reply \in ChatReplies : ChatAskTitle(r, reply)
    \/ \E r \in Requests, reply \in ChatReplies : ChatStoreUserExisting(r, reply)
    \/ \E r \in Requests, reply \in TitleReplies : ChatCreateConversation(r, reply)
    \/ \E r \in Requests : ChatStoreUserNew(r)
    \/ \E r \in Requests : ChatStoreAI(r)
    \/ Tick

Spec == Init /\ [][Next]_vars

\* The store alone: any sequence of its operations, called directly or
\* through the handlers that list and delete conversations.
NextStore ==
    \/ CreateUser
    \/ CreateConversation([title |-> DefaultTitle])
    \/ \E id \in ClientIds \cup {Undefined} :
          CreateMessage([conversationId |-> id, role |-> "user", content |-> "Hello"])
    \/ \E r \in Requests :
        /\ Starts(r)
        /\ \/ GetConversations(r)
           \/ \E id \in ClientIds : DeleteConversation(r, id)
    \/ Tick

SpecStore == Init /\ [][NextStore]_vars

\* The message of the RangeError that Map.prototype.set throws when the map
\* is full: conversations and messages only grow until a delete.
StoreFailure == "Map maximum size exceeded"

\* storage.createConversation or storage.createMessage throws inside
\* POST /api/chat: nothing is stored and the catch block answers.
ChatStoreThrows(r) ==
    /\ req[r].pc \in {"title", "storeUser", "storeAI"}
    /\ req' = [req EXCEPT ![r] =
            [@ EXCEPT !.pc = "done",
                      !.sent = Append(@, chatCatch(TRUE, StoreFailure))]]
    /\ UNCHANGED <<users, conversations, messages, now, uuids, credential>>

\* POST /api/chat alone, over a store whose maps may be full.
NextFault ==
    \/ \E r \in Requests :
        /\ Starts(r)
        /\ \E m \in ChatMessages, id \in ClientIds \cup {Undefined} :
              PostChat(r, [message |-> m, conversationId |-> id])
    \/ \E r \in Requests, reply \in ChatReplies : ChatFail(r, reply)
    \/ \E r \in Requests, reply \in ChatReplies : ChatAskTitle(r, reply)
    \/ \E r \in Requests, reply \in ChatReplies : ChatStoreUserExisting(r, reply)
    \/ \E r \in Requests, reply \in TitleReplies : ChatCreateConversation(r, reply)
    \/ \E r \in Requests : ChatStoreUserNew(r)
    \/ \E r \in Requests : ChatStoreAI(r)
    \/ \E r \in Requests : ChatStoreThrows(r)

SpecFault == Init /\ [][NextFault]_vars

\* A caller awaits generateChatResponse and keeps what came of it.
CallGenerateChatResponse(r, reply) ==
    /\ req[r].pc = "idle"
    /\ req' = [req EXCEPT ![r] =
            [@ EXCEPT !.kind = "generateChatResponse", !.pc = "done",
                      !.result = <<[reply |-> reply,
                                    outcome |-> generateChatResponse(reply)]>>]]
    /\ UNCHANGED <<users, conversations, messages, now, uuids, credential>>

\* A caller awaits generateConversationTitle and keeps what came of it.
CallGenerateConversationTitle(r, reply) ==
    /\ req[r].pc = "idle"
    /\ req' = [req EXCEPT ![r] =
            [@ EXCEPT !.kind = "generateConversationTitle", !.pc = "done",
                      !.result = <<[reply |-> reply,
                                    outcome |-> generateConversationTitle(reply)]>>]]
    /\ UNCHANGED <<users, conversations, messages, now, uuids, credential>>

\* The two functions of services/gemini alone, over every reply of the
\* provider.
NextGemini ==
    \/ \E r \in Requests, reply \in ProviderChatReplies :
          Starts(r) /\ CallGenerateChatResponse(r, reply)
    \/ \E r \in Requests, reply \in ProviderTitleReplies :
          Starts(r) /\ CallGenerateConversationTitle(r, reply)

SpecGemini == Init /\ [][NextGemini]_vars

----------------------------------------------------------------------------
(* What the claims speak of                                                *)

\* Request r takes the step.
StepOf(r) == req'[r] # req[r]

\* s is a prefix of t.
IsPrefix(s, t) == Len(s) <= Len(t) /\ SubSeq(t, 1, Len(s)) = s

\* What t holds after its prefix s.
Suffix(s, t) == SubSeq(t, Len(s) + 1, Len(t))

\* The place of the record with this id in a list that holds it.
Pos(L, id) == CHOOSE i \in 1..Len(L) : L[i].id = id

StoredIds == Ids(messages)

\* A chat request whose generateChatResponse has returned a reply.
Generated(r) == req[r].kind = "chat" /\ req[r].aiResponse # Undefined

\* A request that has answered.
Done(r) == req[r].pc = "done"

\* A chat turn that has answered 200.
TurnDone(r) == Generated(r) /\ Done(r)

\* What a step of request r added to the store is what the handler got back
\* from createConversation and createMessage in that step, and nothing else
\* in the store changed.
OwnEffects(r) ==
    /\ IsPrefix(req[r].conversation, req'[r].conversation)
    /\ IsPrefix(req[r].stored, req'[r].stored)
    /\ conversations' = conversations \o Suffix(req[r].conversation, req'[r].conversation)
    /\ messages' = messages \o Suffix(req[r].stored, req'[r].stored)
    /\ users' = users

----------------------------------------------------------------------------
\* What a turn without conversationId has done when it answers: R is the
\* request, store the messages.
C1_NewTurnPost(R, store) ==
    LET L == getMessagesByConversationIn(store, R.sent[1].conversationId)
    IN  /\ Len(R.sent) = 1
        /\ R.sent[1].status = 200
        /\ Len(R.conversation) = 1
        /\ R.sent[1].conversationId = R.conversation[1].id
        /\ Len(R.stored) = 2
        /\ R.stored[1].id # R.stored[2].id
        /\ R.stored[1].conversationId = R.sent[1].conversationId
        /\ R.stored[2].conversationId = R.sent[1].conversationId
        /\ R.stored[1].role = "user"
        /\ R.stored[1].content = R.message
        /\ R.stored[2].role = "assistant"
        /\ R.stored[2].content = R.sent[1].response
        /\ R.sent[1].response # ""
        /\ ({R.stored[1].id, R.stored[2].id} \subseteq Ids(L)
              => Pos(L, R.stored[1].id) < Pos(L, R.stored[2].id))
        /\ (Ids(L) = {R.stored[1].id, R.stored[2].id} => L = R.stored)

\* C1: a valid POST /api/chat without conversationId whose reply generation
\* succeeds creates exactly one conversation and exactly two messages, both
\* under the conversationId it returns: first the user message (content =
\* the request's message), then the assistant message (content = the
\* returned response), and getMessagesByConversation of that id lists the
\* user message before the assistant message.
C1_NewTurn ==
    [][\A r \in Requests :
          (StepOf(r) /\ req'[r].kind = "chat" /\ req'[r].conversationId = Undefined)
          => /\ OwnEffects(r)
             /\ (req'[r].pc = "done" /\ req'[r].aiResponse # Undefined
                   => C1_NewTurnPost(req'[r], messages'))]_vars

\* C1 witness: a turn without conversationId has answered, and its
\* conversation holds exactly its two messages, written at different times.
C1_Witness ==
    \E r \in Requests :
        /\ TurnDone(r)
        /\ req[r].conversationId = Undefined
        /\ Len(conversations) = 1
        /\ getMessagesByConversation(req[r].sent[1].conversationId) = req[r].stored
        /\ req[r].stored[1].timestamp < req[r].stored[2].timestamp

----------------------------------------------------------------------------
\* What a turn with a conversationId has done when it answers.
C2_ExistingTurnPost(R) ==
        /\ Len(R.sent) = 1
        /\ R.sent[1].status = 200
        /\ R.sent[1].conversationId = R.conversationId
        /\ R.conversation = <<>>
        /\ Len(R.stored) = 2
        /\ R.stored[1].role = "user"
        /\ R.stored[1].content = R.message
        /\ R.stored[2].role = "assistant"
        /\ R.stored[2].content = R.sent[1].response

\* C2: a valid POST /api/chat with conversationId X whose reply generation
\* succeeds leaves the conversations as they are and adds exactly two
\* messages under X, the user message and then the assistant message; no
\* step of it removes or changes a stored message, and each message it adds
\* comes after everything getMessagesByConversation(X) listed before.
C2_ExistingTurn ==
    [][\A r \in Requests :
          (StepOf(r) /\ req'[r].kind = "chat" /\ req'[r].conversationId # Undefined)
          => LET X == req'[r].conversationId
                 added == Suffix(req[r].stored, req'[r].stored)
             IN  /\ OwnEffects(r)
                 /\ conversations' = conversations
                 /\ Len(added) <= 1
                 /\ \A i \in 1..Len(added) : added[i].conversationId = X
                 /\ getMessagesByConversationIn(messages', X)
                      = getMessagesByConversation(X) \o added
                 /\ (req'[r].pc = "done" /\ req'[r].aiResponse # Undefined
                       => C2_ExistingTurnPost(req'[r]))]_vars

\* C2 witness: a turn on a conversation that exists and held two messages
\* has answered, and the conversation lists the old pair before the new one.
C2_Witness ==
    \E r \in Requests :
        /\ TurnDone(r)
        /\ req[r].conversationId \in Ids(conversations)
        /\ Len(req[r].conversationHistory) = 2
        /\ Len(getMessagesByConversation(req[r].conversationId)) = 4
        /\ SubSeq(getMessagesByConversation(req[r].conversationId), 3, 4) = req[r].stored

----------------------------------------------------------------------------
\* C3: when generateChatResponse fails inside a POST /api/chat request, the
\* request creates no conversation and stores no message, its steps leave
\* users, conversations and messages exactly as they were, and it answers
\* 400 with an error message.
C3_FailClosed ==
    [][\A r \in Requests :
          /\ (StepOf(r) /\ req[r].pc = "idle" /\ req'[r].kind = "chat")
                => UNCHANGED <<users, conversations, messages>>
          /\ (StepOf(r) /\ req[r].pc = "generate" /\ req'[r].pc = "done")
                => /\ UNCHANGED <<users, conversations, messages>>
                   /\ req'[r].conversation = <<>>
                   /\ req'[r].stored = <<>>
                   /\ Len(req'[r].sent) = 1
                   /\ req'[r].sent[1].status = 400
                   /\ req'[r].sent[1].error
                        \in {AuthError, QuotaError, RateLimitError, GenerationError}]_vars

\* C3 witness: a turn has failed at generation after an earlier turn
\* succeeded, whose conversation and two messages are still stored.
C3_Witness ==
    \E r, q \in Requests :
        /\ req[r].kind = "chat" /\ Done(r) /\ req[r].message # ""
        /\ req[r].aiResponse = Undefined
        /\ req[r].sent[1].status = 400
        /\ q < r /\ TurnDone(q)
        /\ Len(conversations) = 1
        /\ req[q].stored = messages

----------------------------------------------------------------------------
\* C4: once a deleteConversation has completed, no stored message has a
\* conversationId that names a conversation absent from the store.
C4_NoDanglingMessage ==
    (\E d \in Requests : req[d].kind = "delete" /\ Done(d))
    => \A i \in 1..Len(messages) : messages[i].conversationId \in Ids(conversations)

----------------------------------------------------------------------------
\* C5: deleteConversation(X) removes exactly conversation X and exactly the
\* messages whose conversationId is X, so that X is absent from
\* getAllConversations() and getMessagesByConversation(X) is empty; every
\* other conversation, message and user is unchanged; when X does not exist
\* the whole store is unchanged; DELETE /api/conversations/:id answers
\* 200 {success: true}.
C5_DeleteFrame ==
    [][\A r \in Requests :
          (StepOf(r) /\ req'[r].kind = "delete")
          => LET X == req'[r].conversationId
             IN  /\ conversations' = SelectSeq(conversations, LAMBDA c : c.id # X)
                 /\ messages' = SelectSeq(messages, LAMBDA m : m.conversationId # X)
                 /\ users' = users
                 /\ X \notin Ids(getAllConversationsIn(conversations'))
                 /\ getMessagesByConversationIn(messages', X) = <<>>
                 /\ (X \notin Ids(conversations)
                       => UNCHANGED <<users, conversations, messages>>)
                 /\ req'[r].sent = <<[status |-> 200, body |-> <<[success |-> TRUE]>>]>>]_vars

----------------------------------------------------------------------------
\* What C6 says of every step of a chat request r that carries an id X:
\* the step creates no conversation; once X is absent and the reply is
\* generated, the request answers 200 and has written exactly one user and
\* one assistant message under X.
C6_Writes(r) ==
    LET X == req'[r].conversationId
        R == req'[r]
    IN  /\ OwnEffects(r)
        /\ conversations' = conversations
        /\ R.conversation = <<>>
        /\ (req[r].pc = "storeAI" => R.pc = "done")
        /\ (R.pc = "done" /\ R.aiResponse # Undefined /\ X \notin Ids(conversations')
              => /\ R.sent = <<[status |-> 200, response |-> R.aiResponse,
                                conversationId |-> X]>>
                 /\ Len(R.stored) = 2
                 /\ R.stored[1].conversationId = X /\ R.stored[1].role = "user"
                 /\ R.stored[2].conversationId = X /\ R.stored[2].role = "assistant"
                 /\ R.stored[1].id # R.stored[2].id)

----------------------------------------------------------------------------
\* C7: no state can be observed in which deleteConversation(X) has removed
\* conversation X while a message that was under X when the delete started
\* is still stored: after the call conversation X is absent and none of the
\* messages it found is stored, and no list or message response of a later
\* request shows X or one of them.
C7_DeleteAtomic ==
    \A d \in Requests :
        req[d].kind = "delete"
        => LET X == req[d].conversationId
               doomed == {req[d].result[i] : i \in 1..Len(req[d].result)}
           IN  /\ X \notin Ids(conversations)
               /\ X \notin Ids(getAllConversations)
               /\ doomed \cap StoredIds = {}
               /\ doomed \cap Ids(getMessagesByConversation(X)) = {}
               /\ \A g \in Requests :
                     (g > d /\ req[g].kind = "messages")
                     => doomed \cap Ids(req[g].sent[1].body) = {}
               /\ \A g \in Requests :
                     (g > d /\ req[g].kind = "list")
                     => X \notin Ids(req[g].sent[1].body)

\* C7 witness: a delete removed a conversation with its two messages, and a
\* later request fetched the messages of that id.
C7_Witness ==
    \E d, g \in Requests :
        /\ req[d].kind = "delete"
        /\ req[d].conversationId \in KnownIds
        /\ Len(req[d].result) = 2
        /\ g > d /\ req[g].kind = "messages"
        /\ req[g].conversationId = req[d].conversationId

----------------------------------------------------------------------------
\* C8: once a chat turn whose reply generation succeeded has completed, the
\* store holds both its user message and its assistant message or neither.
C8_Pairs ==
    \A r \in Requests :
        TurnDone(r)
        => (req[r].stored[1].id \in StoredIds <=> req[r].stored[2].id \in StoredIds)

----------------------------------------------------------------------------
\* A list of conversations holds each once, by createdAt descending.
NewestFirst(L) ==
    /\ Cardinality(Ids(L)) = Len(L)
    /\ \A i, j \in 1..Len(L) : i < j => L[i].createdAt >= L[j].createdAt

\* C9: getAllConversations() returns exactly the conversations in the store,
\* each once, by createdAt descending, and so does every answer of
\* GET /api/conversations.
C9_NewestFirst ==
    /\ NewestFirst(getAllConversations)
    /\ Len(getAllConversations) = Len(conversations)
    /\ {getAllConversations[i] : i \in 1..Len(getAllConversations)}
         = {conversations[i] : i \in 1..Len(conversations)}
    /\ \A g \in Requests :
          req[g].kind = "list" => NewestFirst(req[g].sent[1].body)

\* C9 witness: after a conversation was created and deleted, two
\* conversations created at different times are listed, the newer first.
C9_Witness ==
    /\ Len(conversations) = 2
    /\ conversations[1].createdAt < conversations[2].createdAt
    /\ getAllConversations = <<conversations[2], conversations[1]>>
    /\ \E d \in Requests :
          /\ req[d].kind = "delete"
          /\ req[d].conversationId \notin Ids(conversations) \cup {UnknownId}

----------------------------------------------------------------------------
\* C10: getMessagesByConversation(id) returns exactly the stored messages
\* whose conversationId is id, each once, by timestamp ascending, those of
\* equal timestamp in the order in which they were inserted.
C10_OldestFirst ==
    \A id \in ClientIds :
        LET L == getMessagesByConversation(id)
            under == {i \in 1..Len(messages) : messages[i].conversationId = id}
        IN  /\ Len(L) = Cardinality(under)
            /\ Ids(L) = {messages[i].id : i \in under}
            /\ \A i \in 1..Len(L) : L[i] = messages[Pos(messages, L[i].id)]
            /\ \A i, j \in 1..Len(L) :
                  i < j => /\ L[i].timestamp <= L[j].timestamp
                           /\ (L[i].timestamp = L[j].timestamp
                                 => Pos(messages, L[i].id) < Pos(messages, L[j].id))

\* C10 witness: an id has three messages, two of one timestamp and a later
\* one, and a message of another conversation was inserted among them.
C10_Witness ==
    \E id \in ClientIds :
        LET L == getMessagesByConversation(id)
        IN  /\ Len(L) = 3
            /\ L[1].timestamp = L[2].timestamp
            /\ L[2].timestamp < L[3].timestamp
            /\ Len(messages) = 4
            /\ messages[2].conversationId # id

----------------------------------------------------------------------------
\* C11: generateConversationTitle never raises: a provider failure or an
\* empty result gives exactly "New Conversation", so the step of a turn
\* that follows the title call always creates the turn's conversation and
\* sends no error, the conversation is titled "New Conversation" when the
\* title call failed, and such a turn goes on to store its user message and
\* then its assistant message and answers 200.
C11_TitleNeverRaises ==
    [][\A r \in Requests :
          /\ (StepOf(r) /\ req[r].pc = "title")
                => /\ req'[r].pc = "storeUser"
                   /\ req'[r].sent = <<>>
                   /\ Len(req'[r].conversation) = 1
                   /\ conversations' = Append(conversations, req'[r].conversation[1])
                   /\ \A reply \in TitleReplies :
                         TitleFailed(reply)
                         => /\ generateConversationTitle(reply) = DefaultTitle
                            /\ (ChatCreateConversation(r, reply)
                                  => req'[r].conversation[1].title = DefaultTitle)
          /\ (StepOf(r) /\ req[r].pc \in {"storeUser", "storeAI"}
                /\ req[r].conversationId = Undefined
                /\ req[r].conversation[1].title = DefaultTitle)
                => /\ OwnEffects(r)
                   /\ Len(req'[r].stored) = Len(req[r].stored) + 1
                   /\ (req[r].pc = "storeUser" => req'[r].pc = "storeAI")
                   /\ (req[r].pc = "storeAI"
                         => /\ req'[r].pc = "done"
                            /\ C1_NewTurnPost(req'[r], messages'))]_vars

\* C11 witness: a turn whose title call failed has answered 200; its
\* conversation, titled "New Conversation", and both its messages are in the
\* store.
C11_Witness ==
    \E r \in Requests :
        /\ TurnDone(r)
        /\ req[r].conversationId = Undefined
        /\ req[r].conversation[1].title = DefaultTitle
        /\ req[r].conversation[1] = conversations[Len(conversations)]
        /\ req[r].sent[1].status = 200
        /\ getMessagesByConversation(req[r].sent[1].conversationId) = req[r].stored
        /\ Len(req[r].stored) = 2

----------------------------------------------------------------------------
\* C12: POST /api/chat sends exactly one response per request, and only when
\* it is done: 200 with {response, conversationId} when the turn succeeded,
\* 400 with {error} when the body was invalid or reply generation failed,
\* and 500 with {error} when anything else failed, a store operation for
\* one.
C12_OneResponse ==
    [][\A r \in Requests :
          (StepOf(r) /\ req'[r].kind = "chat")
          => /\ Len(req'[r].sent) = (IF req'[r].pc = "done" THEN 1 ELSE 0)
             /\ (req'[r].pc = "done"
                   => LET answer == req'[r].sent[1]
                      IN  IF req[r].pc = "idle"
                          THEN answer = [status |-> 400, error |-> ValidationError]
                          ELSE IF req[r].pc = "generate"
                          THEN /\ answer.status = 400
                               /\ answer.error \in {AuthError, QuotaError,
                                                    RateLimitError, GenerationError}
                          ELSE IF messages' # messages
                          THEN answer = [status |-> 200,
                                         response |-> req'[r].aiResponse,
                                         conversationId |->
                                             req'[r].currentConversationId]
                          ELSE answer = [status |-> 500, error |-> UnexpectedError])]_vars

----------------------------------------------------------------------------
\* The class the claim gives a provider failure whose text holds a marker.
ClassOf(marker) ==
    IF marker = "API_KEY" THEN AuthError
    ELSE IF marker = "quota" THEN QuotaError
    ELSE RateLimitError

\* C13: generateChatResponse makes at most one provider call; each failure
\* falls into one class and the five classes have five different messages;
\* without a credential it fails with ConfigurationError and no provider
\* call is made; a provider failure whose text indicates a credential
\* problem, quota exhaustion or throttling fails with AuthError, QuotaError
\* or RateLimitError, and every other failure with GenerationError.
C13_Classes ==
    \A r \in Requests :
        req[r].kind = "generateChatResponse"
        => LET reply == req[r].result[1].reply
               outcome == req[r].result[1].outcome
           IN  /\ outcome.calls <= 1
               /\ Cardinality({ConfigurationError, AuthError, QuotaError,
                                RateLimitError, GenerationError}) = 5
               /\ (~credential
                     => /\ ~outcome.ok
                        /\ outcome.calls = 0
                        /\ outcome.value = ConfigurationError)
               /\ (credential
                     => /\ outcome.calls = 1
                        /\ (reply.type = "text" <=> outcome.ok)
                        /\ (reply.type = "error" /\ reply.has # {}
                              => outcome.value \in {ClassOf(m) : m \in reply.has})
                        /\ (reply.type = "thrown" \/ (reply.type = "error" /\ reply.has = {})
                              => outcome.value = GenerationError))

----------------------------------------------------------------------------
\* C14: when two chat turns on the same stored conversation X have both
\* answered 200, no delete of X was asked for, and their four messages come
\* after everything else under X, then getMessagesByConversation(X) holds
\* the four messages and lists each turn's assistant message right after
\* that turn's user message.
C14_PairsNotInterleaved ==
    \A r, q \in Requests :
        LET X == req[r].conversationId
            L == getMessagesByConversation(X)
            four == Ids(req[r].stored) \cup Ids(req[q].stored)
        IN  (/\ r # q
             /\ TurnDone(r) /\ TurnDone(q)
             /\ X # Undefined
             /\ req[q].conversationId = X
             /\ X \in Ids(conversations)
             /\ \A d \in Requests :
                   req[d].kind = "delete" => req[d].conversationId # X
             /\ \A i \in 1..Len(L) : L[i].id \notin four => i <= Len(L) - 4)
            => /\ Cardinality(four) = 4
               /\ four \subseteq Ids(L)
               /\ Pos(L, req[r].stored[2].id) = Pos(L, req[r].stored[1].id) + 1
               /\ Pos(L, req[q].stored[2].id) = Pos(L, req[q].stored[1].id) + 1

====
